---- MODULE Spec2Model ----
(***************************************************************************)
(* Butterfly subdivision of a half-edge triangle mesh                      *)
(* (Application::vertex_rule, Application::edge_rule and                   *)
(* Application::butterfly_subdivision of application.cpp).                 *)
(*                                                                         *)
(* Numbers.  A float is represented by an integer counting sixteenths      *)
(* (Unit == 16).  Source coordinates are whole numbers (multiples of Unit) *)
(* and w is a multiple of 1/16, so every product and sum of edge_rule is a *)
(* dyadic number with a handful of significant bits: the float and double  *)
(* operations of the code are exact on these inputs, and the integer       *)
(* arithmetic below computes the same values the code computes.            *)
(***************************************************************************)
EXTENDS Integers, Sequences, FiniteSets

(* ------------------------------ bounds -------------------------------- *)

\* w ranges over 0/16 .. MaxW/16
MaxW == 2
\* the source positions are drawn from the configurations 1 .. MaxCfg
MaxCfg == 2
\* every face order is tried for meshes of at most MaxPermFaces faces;
\* larger meshes are tried in the rotations of their order and of its reverse
MaxPermFaces == 4

(* ---------------------------- representation --------------------------- *)

\* one float unit: values count sixteenths
Unit == 16
\* nullptr of a Vertex* (source vertices are 1, 2, ...; destination
\* vertices are the indices 1, 2, ... of dst_vertices)
NoVertex == 0
\* nullptr of an Edge*
NoEdge == <<0, 0>>

(* ---------------------------- source meshes ---------------------------- *)
(* A mesh is the sequence of its faces; a face is the triple of its vertex  *)
(* ids in winding order, its representative half-edge (face.edge) running   *)
(* from the first to the second.                                            *)

EmptyMesh == << >>
\* closed, 4 vertices, 6 edges
Tetrahedron == << <<1, 2, 3>>, <<1, 4, 2>>, <<1, 3, 4>>, <<2, 4, 3>> >>
\* closed, 6 vertices, 12 edges
Octahedron == << <<1, 2, 3>>, <<1, 3, 4>>, <<1, 4, 5>>, <<1, 5, 2>>,
                 <<6, 3, 2>>, <<6, 4, 3>>, <<6, 2, 5>>, <<6, 5, 4>> >>
\* open: two faces sharing the edge {1, 2}
TwoFaces == << <<1, 2, 3>>, <<2, 1, 4>> >>
\* open: the octahedron without its last face; the stencils of the edges of
\* face (1, 2, 3) are complete, those of the nine edges around the hole are not
OpenOctahedron == SubSeq(Octahedron, 1, 7)

Meshes == {EmptyMesh, Tetrahedron, Octahedron, TwoFaces, OpenOctahedron}

\* the face orders tried for a mesh of n faces
Orders(n) ==
    IF n <= MaxPermFaces
    THEN {f \in [1..n -> 1..n] : \A i, j \in 1..n : f[i] = f[j] => i = j}
    ELSE {[i \in 1..n |-> ((s + i - 1) % n) + 1] : s \in 0..(n - 1)}
         \cup {[i \in 1..n |-> ((s + n - i) % n) + 1] : s \in 0..(n - 1)}

\* face t with its r-th half-edge as the representative
Rotate(t, r) == <<t[r + 1], t[((r + 1) % 3) + 1], t[((r + 2) % 3) + 1]>>

\* mesh m with its faces in order ord, the representative half-edge of the
\* face that is i-th in m being its ((a + i) % 3)-th
Arrange(m, ord, a) ==
    [i \in 1..Len(m) |-> Rotate(m[ord[i]], (a + ord[i]) % 3)]

\* position configuration c: pairwise distinct positions of whole
\* coordinates, all with the same z
Position(c, v) == <<Unit * ((v * c) % 5), Unit * ((v * v + c) % 4), Unit * c>>

\* what the memory read through a null link may hold, when the read does
\* not trap
Garbage == {<<0, 0, 0>>, <<-Unit, 3 * Unit, 7 * Unit>>}
\* that memory has not been read yet
Unread == << >>

VARIABLES
    src_faces,              \* src_mesh.faces
    src_twin,               \* the twin link of each half-edge of src_mesh
    src_position,           \* position of each source vertex
    w,                      \* the tension, in sixteenths
    pc,                     \* where butterfly_subdivision stands
    fi,                     \* the face the loop of line 77 is at
    face_vertices,          \* locals of the loop body
    face_edges,
    vertex_rule_vertices,
    edge_rule_vertices,
    vertex_map,             \* builder: source vertex -> destination vertex
    edge_map,               \* builder: source edge   -> destination vertex
    dst_vertices,           \* builder: the destination vertices
    dst_triangles,          \* builder: the destination faces
    finalized,              \* "no", or what finalize() found
    calls,                  \* the builder and checker calls made so far
    bad_edge,               \* the edge whose stencil could not be gathered
    wild                    \* what reads through nullptr yield in this run

vars == <<src_faces, src_twin, src_position, w, pc, fi, face_vertices, face_edges,
          vertex_rule_vertices, edge_rule_vertices, vertex_map, edge_map,
          dst_vertices, dst_triangles, finalized, calls, bad_edge, wild>>

(* ------------------------- the half-edge mesh -------------------------- *)
(* Half-edge <<f, k>> is the k-th (0, 1, 2) half-edge of face f.  A link    *)
(* followed from nullptr is nullptr: edge_rule's reads through it are the   *)
(* undefined behaviour that EdgeStep resolves.                              *)

HalfEdges == {<<f, k>> : f \in 1..Len(src_faces), k \in 0..2}

Vertices == {src_faces[f][k] : f \in 1..Len(src_faces), k \in 1..3}

start(e) == IF e = NoEdge THEN NoVertex ELSE src_faces[e[1]][e[2] + 1]

end(e) == IF e = NoEdge THEN NoVertex ELSE src_faces[e[1]][((e[2] + 1) % 3) + 1]

next(e) == IF e = NoEdge THEN NoEdge ELSE <<e[1], (e[2] + 1) % 3>>

prev(e) == IF e = NoEdge THEN NoEdge ELSE <<e[1], (e[2] + 2) % 3>>

twin(e) == IF e = NoEdge THEN NoEdge ELSE src_twin[e]

\* the twin link the mesh gives half-edge e: the half-edge running the other
\* way between the same two vertices, nullptr on an open boundary
Opposite(e) ==
    LET running_back == {t \in HalfEdges : start(t) = end(e) /\ end(t) = start(e)}
    IN  IF running_back = {} THEN NoEdge ELSE CHOOSE t \in running_back : TRUE

\* face.edge
face_edge(f) == <<f, 0>>

\* every half-edge has a twin
Closed == \A e \in HalfEdges : twin(e) # NoEdge

(* --------------------------- stencil evaluator ------------------------- *)

\* x * 0.5 with the factor left out
Whole(x) == x

\* x * 0.5
Half(x) == x \div 2

\* x * y for floats x, y
Times(x, y) == (x * y) \div Unit

\* vertex_rule returning its result as first initialised (line 15)
vertex_rule_unassigned(v) == <<0, 0, 0>>

vertex_rule(v) == src_position[v]

\* the array "vertices" with slot 6 gathered through twin->next, as slot 7 is
stencil_repeated_slot(e) ==
    << start(e),
       end(e),
       end(next(e)),
       end(next(twin(e))),
       start(prev(twin(next(e)))),
       start(prev(twin(prev(e)))),
       start(prev(twin(next(twin(e))))),
       start(prev(twin(next(twin(e))))) >>

\* the array "vertices" of edge_rule
stencil(e) ==
    << start(e),
       end(e),
       end(next(e)),
       end(next(twin(e))),
       start(prev(twin(next(e)))),
       start(prev(twin(prev(e)))),
       start(prev(twin(prev(twin(e))))),
       start(prev(twin(next(twin(e))))) >>

\* all eight reads of edge_rule go through links that exist
Resolved(e) == \A i \in 1..8 : stencil(e)[i] # NoVertex

\* vertex->position; through nullptr it is whatever lies there
position_of(v, g) == IF v = NoVertex THEN g ELSE src_position[v]

\* edge_rule weighting the two apexes w instead of 2w
edge_rule_apex_w(e, t, g) ==
    LET vertices == stencil(e)
        P(i, ax) == position_of(vertices[i], g)[ax]
        axis(ax) == Half(P(1, ax)) + Half(P(2, ax))
                    + Times(P(3, ax), t) + Times(P(4, ax), t)
                    + Times(P(5, ax), -t) + Times(P(6, ax), -t)
                    + Times(P(7, ax), -t) + Times(P(8, ax), -t)
    IN  <<axis(1), axis(2), axis(3)>>

\* edge_rule(edge, w); g is what a read through nullptr yields
edge_rule(e, t, g) ==
    LET vertices == stencil(e)
        P(i, ax) == position_of(vertices[i], g)[ax]
        axis(ax) == Half(P(1, ax)) + Half(P(2, ax))
                    + Times(P(3, ax) * 2, t) + Times(P(4, ax) * 2, t)
                    + Times(P(5, ax), -t) + Times(P(6, ax), -t)
                    + Times(P(7, ax), -t) + Times(P(8, ax), -t)
    IN  <<axis(1), axis(2), axis(3)>>

(* ------------------------- destination builder ------------------------- *)

\* the key of a source edge: the same for a half-edge and its twin
EdgeKey(e) == IF start(e) < end(e) THEN <<start(e), end(e)>> ELSE <<end(e), start(e)>>

EdgeKeys == {EdgeKey(e) : e \in HalfEdges}

find_dst_vertex_of_vertex(v) == vertex_map[v]

find_dst_vertex_of_edge(e) == edge_map[EdgeKey(e)]

\* the destination vertex insert_vertex(position, v) creates
NewVertexOfVertex(position, v) ==
    [position |-> position, of_vertex |-> v, of_edge |-> NoEdge]

\* the destination vertex insert_vertex(position, e) creates
NewVertexOfEdge(position, e) ==
    [position |-> position, of_vertex |-> NoVertex, of_edge |-> e]

\* the directed edges of a sequence of triangles, one per triangle and side
DirectedEdges(tris) ==
    {<<i, k>> : i \in 1..Len(tris), k \in 0..2}

EdgeFrom(tris, d) == tris[d[1]][d[2] + 1]

EdgeTo(tris, d) == tris[d[1]][((d[2] + 1) % 3) + 1]

\* finalize() can give every half-edge of the triangles exactly one twin
Pairable(tris) ==
    \A d \in DirectedEdges(tris) :
        /\ EdgeFrom(tris, d) # EdgeTo(tris, d)
        /\ Cardinality({x \in DirectedEdges(tris) :
                 EdgeFrom(tris, x) = EdgeFrom(tris, d) /\ EdgeTo(tris, x) = EdgeTo(tris, d)}) = 1
        /\ Cardinality({x \in DirectedEdges(tris) :
                 EdgeFrom(tris, x) = EdgeTo(tris, d) /\ EdgeTo(tris, x) = EdgeFrom(tris, d)}) = 1

(* ------------------------------ the driver ----------------------------- *)

\* the test of line 95 answering "not computed" whatever the lookup found
VertexAlwaysComputed(toProcess) == TRUE

\* line 95: the vertex has not been computed yet
VertexNotComputedYet(toProcess) == toProcess = NoVertex

\* the test of line 122 answering "not computed" whatever the lookup found
EdgeAlwaysComputed(toProcess) == TRUE

\* line 122: the edge's vertex has not been computed yet
EdgeNotComputedYet(toProcess) == toProcess = NoVertex

\* finalize() reached from inside the loop over the faces
AnyFaceBoundary == TRUE

\* lines 77, 144: the loop over src_mesh.faces has run out of faces
AllFacesProcessed == fi > Len(src_faces)

Init ==
    /\ \E m \in Meshes : \E ord \in Orders(Len(m)) : \E a \in 0..2 :
           src_faces = Arrange(m, ord, a)
    /\ src_twin = [e \in HalfEdges |-> Opposite(e)]
    /\ \E c \in 1..MaxCfg : src_position = [v \in Vertices |-> Position(c, v)]
    /\ w \in 0..MaxW
    /\ pc = "loop"
    /\ fi = 1
    /\ face_vertices = << >>
    /\ face_edges = << >>
    /\ vertex_rule_vertices = << >>
    /\ edge_rule_vertices = << >>
    /\ vertex_map = [v \in Vertices |-> NoVertex]
    /\ edge_map = [k \in EdgeKeys |-> NoVertex]
    /\ dst_vertices = << >>
    /\ dst_triangles = << >>
    /\ finalized = "no"
    /\ calls = << >>
    /\ bad_edge = NoEdge
    /\ wild = Unread

\* lines 77-88: the next face; its three vertices
BeginFace ==
    /\ pc = "loop"
    /\ fi <= Len(src_faces)
    /\ face_vertices' = << start(face_edge(fi)), end(face_edge(fi)), end(next(face_edge(fi))) >>
    /\ vertex_rule_vertices' = << >>
    /\ edge_rule_vertices' = << >>
    /\ face_edges' = << >>
    /\ pc' = "vertices"
    /\ UNCHANGED <<src_faces, src_twin, src_position, w, fi, vertex_map, edge_map,
                   dst_vertices, dst_triangles, finalized, calls, bad_edge, wild>>

\* lines 90-109: one pass of the loop over face_vertices
VertexStep ==
    /\ pc = "vertices"
    /\ Len(vertex_rule_vertices) < 3
    /\ LET v == face_vertices[Len(vertex_rule_vertices) + 1]
           toProcess == find_dst_vertex_of_vertex(v)
       IN  \/ /\ VertexNotComputedYet(toProcess)
              /\ dst_vertices' = Append(dst_vertices, NewVertexOfVertex(vertex_rule(v), v))
              /\ vertex_map' = [vertex_map EXCEPT ![v] = Len(dst_vertices) + 1]
              /\ vertex_rule_vertices' = Append(vertex_rule_vertices, Len(dst_vertices) + 1)
              /\ calls' = calls \o <<"find_vertex", "insert_vertex">>
           \/ /\ ~VertexNotComputedYet(toProcess)
              /\ vertex_rule_vertices' = Append(vertex_rule_vertices, toProcess)
              /\ calls' = Append(calls, "find_vertex")
              /\ UNCHANGED <<dst_vertices, vertex_map>>
    /\ UNCHANGED <<src_faces, src_twin, src_position, w, pc, fi, face_vertices, face_edges,
                   edge_rule_vertices, edge_map, dst_triangles, finalized, bad_edge, wild>>

\* lines 111-115: the three edges of the face
CollectEdges ==
    /\ pc = "vertices"
    /\ Len(vertex_rule_vertices) = 3
    /\ face_edges' = << face_edge(fi), next(face_edge(fi)), prev(face_edge(fi)) >>
    /\ pc' = "edges"
    /\ UNCHANGED <<src_faces, src_twin, src_position, w, fi, face_vertices,
                   vertex_rule_vertices, edge_rule_vertices, vertex_map, edge_map,
                   dst_vertices, dst_triangles, finalized, calls, bad_edge, wild>>

\* insert_vertex(position, e) of line 127 and the push_back after it
InsertEdgeVertex(position, e) ==
    /\ dst_vertices' = Append(dst_vertices, NewVertexOfEdge(position, e))
    /\ edge_map' = [edge_map EXCEPT ![EdgeKey(e)] = Len(dst_vertices) + 1]
    /\ edge_rule_vertices' = Append(edge_rule_vertices, Len(dst_vertices) + 1)
    /\ calls' = calls \o <<"find_edge", "insert_vertex">>

\* lines 117-136: one pass of the loop over face_edges.  When a link of the
\* stencil is missing, edge_rule reads through nullptr: the read traps, or it
\* yields whatever lies there and the pass goes on.
EdgeStep ==
    /\ pc = "edges"
    /\ Len(edge_rule_vertices) < 3
    /\ LET e == face_edges[Len(edge_rule_vertices) + 1]
           toProcess == find_dst_vertex_of_edge(e)
       IN  \/ /\ EdgeNotComputedYet(toProcess)
              /\ Resolved(e)
              /\ InsertEdgeVertex(edge_rule(e, w, wild), e)
              /\ UNCHANGED <<pc, bad_edge, wild>>
           \/ /\ EdgeNotComputedYet(toProcess)
              /\ ~Resolved(e)
              /\ pc' = "crashed"
              /\ bad_edge' = e
              /\ calls' = Append(calls, "find_edge")
              /\ UNCHANGED <<dst_vertices, edge_map, edge_rule_vertices, wild>>
           \/ /\ EdgeNotComputedYet(toProcess)
              /\ ~Resolved(e)
              /\ \E g \in (IF wild = Unread THEN Garbage ELSE {wild}) :
                     /\ InsertEdgeVertex(edge_rule(e, w, g), e)
                     /\ wild' = g
              /\ bad_edge' = e
              /\ UNCHANGED pc
           \/ /\ ~EdgeNotComputedYet(toProcess)
              /\ edge_rule_vertices' = Append(edge_rule_vertices, toProcess)
              /\ calls' = Append(calls, "find_edge")
              /\ UNCHANGED <<dst_vertices, edge_map, pc, bad_edge, wild>>
    /\ UNCHANGED <<src_faces, src_twin, src_position, w, fi, face_vertices, face_edges,
                   vertex_rule_vertices, vertex_map, dst_triangles, finalized>>

\* the four triangles with the central one wound the other way
ChildTrianglesCentreFlipped(v, m) ==
    << <<v[1], m[1], m[3]>>,
       <<m[1], v[2], m[2]>>,
       <<m[3], m[2], v[3]>>,
       <<m[1], m[3], m[2]>> >>

\* the four triangles with the corner at V2 built on m0 instead of m2
ChildTrianglesWrongCorner(v, m) ==
    << <<v[1], m[1], m[3]>>,
       <<m[1], v[2], m[2]>>,
       <<m[1], m[2], v[3]>>,
       <<m[1], m[2], m[3]>> >>

\* lines 139-143: the four triangles of the face
ChildTriangles(v, m) ==
    << <<v[1], m[1], m[3]>>,
       <<m[1], v[2], m[2]>>,
       <<m[3], m[2], v[3]>>,
       <<m[1], m[2], m[3]>> >>

\* lines 139-144: insert the four triangles, go to the next face
InsertTriangles ==
    /\ pc = "edges"
    /\ Len(edge_rule_vertices) = 3
    /\ dst_triangles' = dst_triangles \o ChildTriangles(vertex_rule_vertices, edge_rule_vertices)
    /\ calls' = calls \o <<"insert_triangle", "insert_triangle", "insert_triangle", "insert_triangle">>
    /\ fi' = fi + 1
    /\ pc' = "loop"
    /\ UNCHANGED <<src_faces, src_twin, src_position, w, face_vertices, face_edges,
                   vertex_rule_vertices, edge_rule_vertices, vertex_map, edge_map,
                   dst_vertices, finalized, bad_edge, wild>>

\* line 146: bld.finalize()
Finalize ==
    /\ pc = "loop"
    /\ AllFacesProcessed
    /\ finalized' = IF Pairable(dst_triangles) THEN "manifold" ELSE "non-manifold"
    /\ calls' = Append(calls, "finalize")
    /\ pc' = "check"
    /\ UNCHANGED <<src_faces, src_twin, src_position, w, fi, face_vertices, face_edges,
                   vertex_rule_vertices, edge_rule_vertices, vertex_map, edge_map,
                   dst_vertices, dst_triangles, bad_edge, wild>>

\* line 148: check_mesh_invariants(dst_mesh)
CheckMeshInvariants ==
    /\ pc = "check"
    /\ calls' = Append(calls, "check_mesh_invariants")
    /\ pc' = "done"
    /\ UNCHANGED <<src_faces, src_twin, src_position, w, fi, face_vertices, face_edges,
                   vertex_rule_vertices, edge_rule_vertices, vertex_map, edge_map,
                   dst_vertices, dst_triangles, finalized, bad_edge, wild>>

Next ==
    \/ BeginFace
    \/ VertexStep
    \/ CollectEdges
    \/ EdgeStep
    \/ InsertTriangles
    \/ Finalize
    \/ CheckMeshInvariants

Spec == Init /\ [][Next]_vars

(* ------------------------------ properties ---------------------------- *)

\* the unordered edges of the source mesh
UnorderedEdges == {{start(e), end(e)} : e \in HalfEdges}

\* the loop over the faces has ended and the pass went on to finalize()
PassCompleted == pc \in {"check", "done"}

\* the destination vertices created for source vertex v, and for the
\* unordered edge of half-edge e
CreatedForVertex(v) == {i \in 1..Len(dst_vertices) : dst_vertices[i].of_vertex = v}

CreatedForEdge(e) ==
    {i \in 1..Len(dst_vertices) :
        /\ dst_vertices[i].of_edge # NoEdge
        /\ {start(dst_vertices[i].of_edge), end(dst_vertices[i].of_edge)} = {start(e), end(e)}}

\* C1: on a closed mesh at most one destination vertex is created per source
\* vertex and per unordered source edge, a half-edge and its twin map to the
\* same destination vertex, and the refined mesh has exactly V + E vertices,
\* whatever the order of the faces
C1_OneVertexPerSourceEntity ==
    Closed =>
        /\ \A v \in Vertices : Cardinality(CreatedForVertex(v)) <= 1
        /\ \A e \in HalfEdges :
               /\ Cardinality(CreatedForEdge(e)) <= 1
               /\ find_dst_vertex_of_edge(e) = find_dst_vertex_of_edge(twin(e))
               /\ find_dst_vertex_of_edge(e) # NoVertex
                      => CreatedForEdge(e) = {find_dst_vertex_of_edge(e)}
        /\ PassCompleted =>
               Len(dst_vertices) = Cardinality(Vertices) + Cardinality(UnorderedEdges)

\* a closed mesh has been refined: an edge's vertex, created from one face,
\* was found again from the face of its twin
C1_Witness ==
    /\ Closed
    /\ pc = "done"
    /\ Len(dst_vertices) = 18
    /\ \E e \in HalfEdges :
           /\ dst_vertices[find_dst_vertex_of_edge(e)].of_edge = twin(e)
           /\ e[1] > twin(e)[1]

\* the destination vertices of the corners V0, V1, V2 and of the edges E0, E1,
\* E2 of source face f
CornerVertices(f) ==
    << find_dst_vertex_of_vertex(start(face_edge(f))),
       find_dst_vertex_of_vertex(end(face_edge(f))),
       find_dst_vertex_of_vertex(end(next(face_edge(f)))) >>

MidVertices(f) ==
    << find_dst_vertex_of_edge(face_edge(f)),
       find_dst_vertex_of_edge(next(face_edge(f))),
       find_dst_vertex_of_edge(prev(face_edge(f))) >>

\* C2: a mesh of F faces is refined into exactly 4F faces: source face f gives
\* the triangles (v0, m0, m2), (m0, v1, m1), (m2, m1, v2), (m0, m1, m2), in the
\* winding of f
C2_FourTrianglesPerFace ==
    /\ PassCompleted => Len(dst_triangles) = 4 * Len(src_faces)
    /\ \A f \in 1..Len(src_faces) :
           (f < fi) =>
               LET v == CornerVertices(f)
                   m == MidVertices(f)
               IN  /\ \A k \in 1..3 :
                          /\ dst_vertices[v[k]].of_vertex = src_faces[f][k]
                          /\ {start(dst_vertices[m[k]].of_edge), end(dst_vertices[m[k]].of_edge)}
                                 = {src_faces[f][k], src_faces[f][(k % 3) + 1]}
                   /\ dst_triangles[4 * f - 3] = <<v[1], m[1], m[3]>>
                   /\ dst_triangles[4 * f - 2] = <<m[1], v[2], m[2]>>
                   /\ dst_triangles[4 * f - 1] = <<m[3], m[2], v[3]>>
                   /\ dst_triangles[4 * f] = <<m[1], m[2], m[3]>>

\* a mesh of eight faces has been refined into thirty-two
C2_Witness ==
    /\ pc = "done"
    /\ Len(src_faces) = 8
    /\ Len(dst_triangles) = 32

\* the source mesh is a tetrahedron
IsTetrahedron ==
    /\ Len(src_faces) = 4
    /\ Cardinality(Vertices) = 4
    /\ Cardinality(UnorderedEdges) = 6
    /\ Closed

\* C6: a tetrahedron refined with w = 0 gives exactly 16 triangles and 10
\* vertices: 4 at the positions of the source vertices and 6 new ones, one
\* per source edge, each at the midpoint of its edge
C6_TetrahedronAtZeroTension ==
    (IsTetrahedron /\ w = 0 /\ pc = "done") =>
        /\ Len(dst_triangles) = 16
        /\ Len(dst_vertices) = 10
        /\ \A v \in Vertices :
               \E i \in 1..10 :
                   /\ CreatedForVertex(v) = {i}
                   /\ dst_vertices[i].position = src_position[v]
        /\ \A e \in HalfEdges :
               \E i \in 1..10 :
                   /\ CreatedForEdge(e) = {i}
                   /\ \A ax \in 1..3 :
                          2 * dst_vertices[i].position[ax]
                              = src_position[start(e)][ax] + src_position[end(e)][ax]
        /\ Cardinality({i \in 1..10 : dst_vertices[i].of_vertex # NoVertex}) = 4
        /\ Cardinality({i \in 1..10 : dst_vertices[i].of_edge # NoEdge}) = 6

\* a tetrahedron has been refined with w = 0
C6_Witness ==
    /\ IsTetrahedron
    /\ w = 0
    /\ pc = "done"
    /\ \E i \in 1..Len(dst_vertices) :
           /\ dst_vertices[i].of_edge # NoEdge
           /\ dst_vertices[i].position[1] # 0

\* C7: when the stencil of an edge cannot be resolved the pass fails as a
\* whole: no position is substituted for the edge, the destination mesh holds
\* no vertices and no triangles, and finalize and the checker are not reached
C7_FailFastNoPartialOutput ==
    bad_edge # NoEdge =>
        /\ CreatedForEdge(bad_edge) = {}
        /\ dst_vertices = << >>
        /\ dst_triangles = << >>
        /\ finalized = "no"
        /\ \A i \in 1..Len(calls) : calls[i] \notin {"finalize", "check_mesh_invariants"}

\* C8: lookups are stable: a lookup that finds nothing changes nothing; once
\* a key has its destination vertex, every later lookup returns that same
\* vertex, across any other inserts; the driver never inserts for a key
\* whose lookup succeeded
C8_StableLookups ==
    [][ /\ \A v \in Vertices :
              vertex_map[v] # NoVertex => vertex_map'[v] = vertex_map[v]
        /\ \A e \in HalfEdges :
              edge_map[EdgeKey(e)] # NoVertex => edge_map'[EdgeKey(e)] = edge_map[EdgeKey(e)]
        /\ SubSeq(dst_vertices', 1, Len(dst_vertices)) = dst_vertices
        /\ Len(dst_vertices') = Len(dst_vertices)
              => (vertex_map' = vertex_map /\ edge_map' = edge_map)
        /\ Len(dst_vertices') > Len(dst_vertices) =>
              LET new == dst_vertices'[Len(dst_vertices')]
              IN  /\ Len(dst_vertices') = Len(dst_vertices) + 1
                  /\ new.of_vertex # NoVertex =>
                         /\ vertex_map[new.of_vertex] = NoVertex
                         /\ vertex_map'[new.of_vertex] = Len(dst_vertices')
                  /\ new.of_edge # NoEdge =>
                         /\ edge_map[EdgeKey(new.of_edge)] = NoVertex
                         /\ edge_map'[EdgeKey(new.of_edge)] = Len(dst_vertices')
      ]_vars

\* in a later face, after other inserts, the lookups of a corner and of an
\* edge returned the vertices created in an earlier face
C8_Witness ==
    /\ pc = "edges"
    /\ fi > 2
    /\ \E k \in 1..Len(edge_rule_vertices) :
           /\ dst_vertices[edge_rule_vertices[k]].of_edge[1] < fi - 1
           /\ edge_rule_vertices[k] + 3 < Len(dst_vertices)
    /\ \E k \in 1..3 :
           vertex_rule_vertices[k] + 3 < Len(dst_vertices)

\* the calls a run may make, as an automaton: per face three vertex lookups,
\* each followed by at most one insert, three edge lookups likewise, four
\* triangles; then finalize, then the checker.  A state is <<phase, count,
\* faces done>>.
Delta(q, c) ==
    LET phase == q[1]
        n == q[2]
        k == q[3]
    IN  CASE phase = "start" /\ c = "find_vertex" -> <<"v", 1, k>>
          [] phase = "start" /\ c = "finalize" -> <<"finalized", 0, k>>
          [] phase \in {"v", "vi"} /\ c = "find_vertex" /\ n < 3 -> <<"v", n + 1, k>>
          [] phase = "v" /\ c = "insert_vertex" -> <<"vi", n, k>>
          [] phase \in {"v", "vi"} /\ c = "find_edge" /\ n = 3 -> <<"e", 1, k>>
          [] phase \in {"e", "ei"} /\ c = "find_edge" /\ n < 3 -> <<"e", n + 1, k>>
          [] phase = "e" /\ c = "insert_vertex" -> <<"ei", n, k>>
          [] phase \in {"e", "ei"} /\ c = "insert_triangle" /\ n = 3 -> <<"t", 1, k>>
          [] phase = "t" /\ c = "insert_triangle" /\ n < 3 -> <<"t", n + 1, k>>
          [] phase = "t" /\ c = "insert_triangle" /\ n = 3 -> <<"start", 0, k + 1>>
          [] phase = "finalized" /\ c = "check_mesh_invariants" -> <<"checked", 0, k>>
          [] OTHER -> <<"reject", 0, k>>

RECURSIVE Scan(_, _, _)
Scan(s, i, q) == IF i > Len(s) THEN q ELSE Scan(s, i + 1, Delta(q, s[i]))

\* C9: the builder protocol is ordered: every insert precedes finalize,
\* finalize is called once, after the last face (also when there is none),
\* the checker once and after finalize, and in each face the lookups and
\* inserts of its vertices and edges precede its four triangles.  A run goes
\* on until the checker has been called; the one run that does not is the
\* run that traps in edge_rule on a missing link.
C9_BuilderProtocol ==
    LET q == Scan(calls, 1, <<"start", 0, 0>>)
    IN  /\ q[1] # "reject"
        /\ pc \notin {"done", "crashed"} => ENABLED Next
        /\ pc = "crashed" => (bad_edge # NoEdge /\ ~Resolved(bad_edge))
        /\ q[1] \in {"finalized", "checked"} => q[3] = Len(src_faces)
        /\ pc = "check" => q[1] = "finalized"
        /\ pc = "done" => q[1] = "checked"
        /\ finalized # "no" <=> q[1] \in {"finalized", "checked"}
        /\ Len(dst_triangles) = Cardinality({i \in 1..Len(calls) : calls[i] = "insert_triangle"})
        /\ Len(dst_vertices) = Cardinality({i \in 1..Len(calls) : calls[i] = "insert_vertex"})

\* a pass over several faces went through lookups that hit and lookups that
\* missed, and has called finalize and the checker
C9_Witness ==
    /\ pc = "done"
    /\ Len(src_faces) > 1
    /\ calls[Len(calls)] = "check_mesh_invariants"
    /\ calls[Len(calls) - 1] = "finalize"
    /\ Len(dst_vertices) < 6 * Len(src_faces)

\* the sides of the emitted triangles that run from a to b
Sides(a, b) ==
    {d \in DirectedEdges(dst_triangles) :
        EdgeFrom(dst_triangles, d) = a /\ EdgeTo(dst_triangles, d) = b}

\* C10: the triangles emitted for a closed, consistently oriented manifold are
\* one again: each directed edge (a, b) is a side of exactly one triangle and
\* (b, a) of exactly one other, so finalize pairs every twin
C10_RefinedMeshClosed ==
    (Closed /\ PassCompleted) =>
        /\ \A d \in DirectedEdges(dst_triangles) :
               LET a == EdgeFrom(dst_triangles, d)
                   b == EdgeTo(dst_triangles, d)
               IN  /\ a # b
                   /\ Sides(a, b) = {d}
                   /\ Cardinality(Sides(b, a)) = 1
                   /\ \A x \in Sides(b, a) : x[1] # d[1]
        /\ finalized = "manifold"

\* a closed mesh has been refined and finalized
C10_Witness ==
    /\ Closed
    /\ pc = "done"
    /\ Len(dst_triangles) = 32
    /\ finalized = "manifold"

\* the destination vertex created last, and whether an edge created it
LastVertex == dst_vertices[Len(dst_vertices)]

LastIsOfEdge == Len(dst_vertices) > 0 /\ LastVertex.of_edge # NoEdge

\* C3: the destination vertex created for a source vertex v has exactly the
\* position of v, whatever the mesh and the tension w
C3_VertexPreservation ==
    /\ \A i \in 1..Len(dst_vertices) :
           dst_vertices[i].of_vertex # NoVertex
               => dst_vertices[i].position = src_position[dst_vertices[i].of_vertex]
    /\ \A v \in Vertices :
           vertex_map[v] # NoVertex
               => /\ dst_vertices[vertex_map[v]].of_vertex = v
                  /\ dst_vertices[vertex_map[v]].position = src_position[v]

\* a run with w > 0 has created the destination vertex of a source vertex
\* that lies off the origin
C3_Witness ==
    /\ w > 0
    /\ \E v \in Vertices :
           /\ vertex_map[v] # NoVertex
           /\ src_position[v][1] # 0 /\ src_position[v][2] # 0

\* the eight stencil vertices of half-edge e as the contract names them
P0(e) == start(e)
P1(e) == end(e)
P2(e) == end(next(e))
P3(e) == end(next(twin(e)))
P4(e) == start(prev(twin(next(e))))
P5(e) == start(prev(twin(prev(e))))
P6(e) == start(prev(twin(prev(twin(e)))))
P7(e) == start(prev(twin(next(twin(e)))))

Ring(e) == <<P4(e), P5(e), P6(e), P7(e)>>

FullNeighbourhood(e) ==
    /\ twin(e) # NoEdge
    /\ \A i \in 1..4 : Ring(e)[i] # NoVertex

\* the weights, in sixteenths, of P0 .. P7 at tension t
Weight(t) == <<8, 8, 2 * t, 2 * t, -t, -t, -t, -t>>

\* 16 times coordinate ax of 1/2 P0 + 1/2 P1 + 2w (P2 + P3) - w (P4 + P5 + P6 + P7),
\* for the eight vertices P
AffineTimes16(P, t, ax) ==
    8 * src_position[P[1]][ax] + 8 * src_position[P[2]][ax]
    + 2 * t * (src_position[P[3]][ax] + src_position[P[4]][ax])
    - t * (src_position[P[5]][ax] + src_position[P[6]][ax]
           + src_position[P[7]][ax] + src_position[P[8]][ax])

\* C4: for a half-edge e with a fully populated neighbourhood, edge_rule(e, w)
\* is, per axis, 1/2 P0 + 1/2 P1 + 2w (P2 + P3) - w (P4 + P5 + P6 + P7); the
\* eight weights sum to 1, and when the eight vertices share a coordinate the
\* result has it too
C4_EdgeRuleAffine ==
    (LastIsOfEdge /\ FullNeighbourhood(LastVertex.of_edge)) =>
        LET e == LastVertex.of_edge
            P == <<P0(e), P1(e), P2(e), P3(e), P4(e), P5(e), P6(e), P7(e)>>
            result == edge_rule(e, w, wild)
        IN  /\ LastVertex.position = result
            /\ \A ax \in 1..3 :
                   /\ Unit * result[ax] = AffineTimes16(P, w, ax)
                   /\ (\A i \in 1..8 : src_position[P[i]][ax] = src_position[P[1]][ax])
                          => result[ax] = src_position[P[1]][ax]
            /\ Weight(w)[1] + Weight(w)[2] + Weight(w)[3] + Weight(w)[4]
               + Weight(w)[5] + Weight(w)[6] + Weight(w)[7] + Weight(w)[8] = Unit

\* an edge with six distinct stencil vertices got its destination vertex at
\* w > 0, off the midpoint of the edge on one axis, the stencil sharing its z
C4_Witness ==
    /\ LastIsOfEdge
    /\ FullNeighbourhood(LastVertex.of_edge)
    /\ w > 0
    /\ LET e == LastVertex.of_edge
       IN  /\ Cardinality({P0(e), P1(e), P2(e), P3(e), P4(e), P5(e), P6(e), P7(e)}) = 6
           /\ \E ax \in 1..2 :
                  2 * LastVertex.position[ax]
                      # src_position[P0(e)][ax] + src_position[P1(e)][ax]
           /\ LastVertex.position[3] = src_position[P0(e)][3]
           /\ LastVertex.position[3] # 0

\* the number of slots of the second ring r that hold vertex v
Slots(r, v) == Cardinality({i \in 1..4 : r[i] = v})

\* C5: on a closed mesh the edge rule gives a half-edge and its twin the same
\* position: the twin's stencil is the half-edge's with P0/P1 swapped, P2/P3
\* swapped and the second ring permuted
C5_EdgeRuleSymmetry ==
    (pc = "done" /\ Closed) =>
        \A e \in HalfEdges :
            LET of_e == stencil(e)
                of_twin == stencil(twin(e))
                at_twin == edge_rule(twin(e), w, wild)
            IN  /\ edge_rule(e, w, wild) = at_twin
                /\ dst_vertices[find_dst_vertex_of_edge(e)].position = at_twin
                /\ of_twin[1] = of_e[2]
                /\ of_twin[2] = of_e[1]
                /\ of_twin[3] = of_e[4]
                /\ of_twin[4] = of_e[3]
                /\ \A v \in Vertices :
                       Slots(SubSeq(of_twin, 5, 8), v) = Slots(SubSeq(of_e, 5, 8), v)

\* a closed mesh was refined at w > 0, and one of its edges has a second ring
\* whose slots hold different vertices at different positions
C5_Witness ==
    /\ pc = "done"
    /\ Closed
    /\ w > 0
    /\ \E e \in HalfEdges :
           /\ stencil(e)[5] # stencil(e)[8]
           /\ src_position[stencil(e)[5]] # src_position[stencil(e)[8]]
           /\ 2 * edge_rule(e, w, wild)[1] # src_position[start(e)][1] + src_position[end(e)][1]

====
